---- MODULE Spec2Model ----
(***************************************************************************)
(* Model of ufc.py: extraction of a VideoInfo from a file name, the path   *)
(* formatter construct_path, and the placement of a file by                *)
(* rename_and_move / move_file on a small file system.                     *)
(*                                                                         *)
(* A name (of a file or of a folder) is a sequence of tokens, the words    *)
(* between separators, with an extension.  A token carries its lowercase   *)
(* word, its case, and the punctuation glued before and after the word.    *)
(* The regular expressions of the source are evaluated on token sequences. *)
(***************************************************************************)
EXTENDS Integers, Sequences, FiniteSets, TLC

\* ---------------------------------------------------------------- tokens

\* A lowercase word, as in a downloaded file name.
W(w) == [w |-> w, c |-> "l", pre |-> <<>>, post |-> <<>>]
\* A Title-cased word (str.title()).
Tt(w) == [w |-> w, c |-> "T", pre |-> <<>>, post |-> <<>>]
\* An UPPER-cased word (str.upper(), and the literal "UFC").
Up(w) == [w |-> w, c |-> "U", pre |-> <<>>, post |-> <<>>]

\* \d+ : the words made of digits only.
Digits == {"30", "300", "301", "12"}
\* [0-9] : the words of one digit.
OneDigit == {"2"}
\* \d{3,4}[pi] : the words that are a resolution.
ResWords == {"480p", "720p", "1080p", "2160p"}
\* 4k|uhd, replaced by 2160p before the search.
ResAliases == {"4k", "uhd"}
\* [a-z-]+ : the words made of letters and hyphens only.
Letters == {"ufc", "fight", "night", "on", "espn", "vs", "pereira", "hill",
            "main", "event", "early", "prelims", "preliminary", "ppv", "web",
            "mkv", "mp4", "video", "other", "dl", "dest"}
\* (?!ppv|main|event|prelim|preliminary) : words a first name cannot start with.
Name1Excluded == {"ppv", "main", "event", "prelims", "preliminary"}
\* (?!ppv|main|prelim|early|web) : words a second name cannot start with.
Name2Excluded == {"ppv", "main", "prelims", "preliminary", "early", "web"}
\* a proper prefix of a word, character-wise (for glob's substring match)
StrictPrefixes == {<<"30", "300">>, <<"30", "301">>}

Bare(t) == t.pre = <<>> /\ t.post = <<>>

SetMin(S) == CHOOSE x \in S : \A y \in S : x <= y
SetMax(S) == CHOOSE x \in S : \A y \in S : x >= y

\* ------------------------------------------------------------------ names

\* A file or folder name: its tokens, the separator between them ("." "_" or
\* " "), and the extension (path.suffix without the dot, "" for none).
MkName(toks, ext, sep) == [toks |-> toks, ext |-> ext, sep |-> sep]

\* re.sub(r"[\.\s_]", " ", path.name): separators become spaces, and so does the
\* dot of the extension, which leaves the extension as a last word.
Normalize(name) ==
    name.toks \o (IF name.ext = "" THEN <<>> ELSE <<W(name.ext)>>)

\* ---------------------------------------------------------------- get_event_number

\* (?P<ppv>\d+) and the other \d+ groups: a word starting right at the digits.
IsNum(t) == t.w \in Digits /\ t.pre = <<>>

\* The match of the pattern starting at token i, <<>> for none. The alternatives
\* are tried in the order of the pattern.
EventAt(toks, i) ==
    LET n == Len(toks) IN
    IF toks[i].w # "ufc" \/ toks[i].post # <<>> THEN <<>>
    ELSE IF i + 1 <= n /\ IsNum(toks[i + 1])
        THEN <<Up("ufc"), W(toks[i + 1].w)>>
    ELSE IF /\ i + 3 <= n
            /\ toks[i + 1].w = "fight" /\ Bare(toks[i + 1])
            /\ toks[i + 2].w = "night" /\ Bare(toks[i + 2])
            /\ IsNum(toks[i + 3])
        THEN <<Up("ufc"), Tt("fight"), Tt("night"), W(toks[i + 3].w)>>
    ELSE IF /\ i + 3 <= n
            /\ toks[i + 1].w = "on" /\ Bare(toks[i + 1])
            /\ Bare(toks[i + 2])
            /\ IsNum(toks[i + 3])
        THEN <<Up("ufc"), W("on"), Up(toks[i + 2].w), W(toks[i + 3].w)>>
    ELSE <<>>

\* re.search: the leftmost position where the pattern matches.
get_event_number(toks) ==
    LET hits == {i \in 1..Len(toks) : EventAt(toks, i) # <<>>} IN
    IF hits = {} THEN <<>> ELSE EventAt(toks, SetMin(hits))

\* ---------------------------------------------------------------- get_fighter_names

\* (?!ppv|main|event|prelim|preliminary)[a-z-]+ followed by a space
N1ok(toks, i) ==
    /\ i < Len(toks)
    /\ Bare(toks[i])
    /\ toks[i].w \in Letters \ Name1Excluded

\* (?!ppv|main|prelim|early|web)[a-z-]+ followed by a space or the end
N2ok(toks, i) ==
    /\ i <= Len(toks)
    /\ Bare(toks[i])
    /\ toks[i].w \in Letters \ Name2Excluded

\* (?![0-9]{2,})(?P<num>[0-9]): the first character of the next word, when it
\* is a digit that no second digit follows.
LeadDigit(t) ==
    IF t.pre # <<>> THEN ""
    ELSE IF t.w \in OneDigit THEN t.w
    ELSE IF t.w = "4k" THEN "4"
    ELSE ""

\* The positions k of a "vs" that a first name starting at s can end before:
\* tokens s..k-1 are first-name words, token k is vs, token k+1 starts a second name.
VsAfter(toks, s) ==
    {k \in (s + 1)..Len(toks) :
        /\ \A j \in s..(k - 1) : N1ok(toks, j)
        /\ toks[k].w = "vs" /\ Bare(toks[k])
        /\ N2ok(toks, k + 1)}

TitleAll(toks) == [i \in 1..Len(toks) |-> Tt(toks[i].w)]

get_fighter_names(toks) ==
    LET starts == {s \in 1..Len(toks) : VsAfter(toks, s) # {}} IN
    IF starts = {} THEN <<>>
    ELSE
        LET s == SetMin(starts)
            \* name1 is greedy: the last vs it can stop before
            k == SetMax(VsAfter(toks, s))
            \* name2 is greedy: the longest run of second-name words
            m == SetMax({e \in (k + 1)..Len(toks) :
                            \A j \in (k + 1)..e : N2ok(toks, j)})
            num == IF m + 1 <= Len(toks) THEN LeadDigit(toks[m + 1]) ELSE ""
        IN  TitleAll(SubSeq(toks, s, k - 1)) \o <<W("vs")>>
              \o TitleAll(SubSeq(toks, k + 1, m))
              \o (IF num = "" THEN <<>> ELSE <<W(num)>>)

\* ---------------------------------------------------------------- get_edition

EARLY_PRELIMS == "Early Prelims"
PRELIMS == "Prelims"
MAIN_EVENT == "Main Event"
Edition == {EARLY_PRELIMS, PRELIMS, MAIN_EVENT}

\* "early prelims" starting at token i
EarlyAt(toks, i) ==
    /\ i + 1 <= Len(toks)
    /\ toks[i].w = "early" /\ toks[i].post = <<>>
    /\ toks[i + 1].w = "prelims" /\ toks[i + 1].pre = <<>>

get_edition(toks) ==
    LET hits == {i \in 1..Len(toks) :
                    EarlyAt(toks, i) \/ toks[i].w \in {"prelims", "preliminary"}}
    IN  IF hits = {} THEN MAIN_EVENT
        ELSE IF EarlyAt(toks, SetMin(hits)) THEN EARLY_PRELIMS
        ELSE PRELIMS

\* ---------------------------------------------------------------- get_resolution

get_resolution(toks) ==
    LET hits == {i \in 1..Len(toks) : toks[i].w \in ResWords \cup ResAliases} IN
    IF hits = {} THEN ""
    ELSE LET w == toks[SetMin(hits)].w IN
         IF w \in ResAliases THEN "2160p" ELSE w

\* ---------------------------------------------------------------- file system

\* A path is the sequence of the names from the top: <<folder, ..., name>>.
Parent(p) == SubSeq(p, 1, Len(p) - 1)
NameOf(p) == p[Len(p)]

\* Config.destination_folder, and the folder downloads are completed in
DestinationFolder == <<MkName(<<W("dest")>>, "", " ")>>
DownloadFolder == <<MkName(<<W("dl")>>, "", " ")>>
\* Config.subfolder = "Other"; None is the name with no token
OtherName == MkName(<<Tt("other")>>, "", " ")
NoName == MkName(<<>>, "", " ")

\* A file system state: files maps each path of a regular file to the identity
\* of its content, dirs is the set of the paths of the directories.
IsFile(f, p) == p \in DOMAIN f.files
IsDir(f, p) == p \in f.dirs
Exists(f, p) == IsFile(f, p) \/ IsDir(f, p)
\* Path.iterdir / os.scandir
Entries(f, d) ==
    {p \in (DOMAIN f.files) \cup f.dirs : Len(p) = Len(d) + 1 /\ Parent(p) = d}

PrefixOf(a, b) == a = b \/ <<a, b>> \in StrictPrefixes

\* Path.glob(f"*{event_number}*", case_sensitive=False) on one entry name: the
\* event number, its words joined by single spaces, is a substring of the name.
GlobMatch(ev, name) ==
    LET n == Len(ev)
        nt == name.toks
    IN  /\ n > 0
        /\ n > 1 => name.sep = " "
        /\ \E j \in 0..(Len(nt) - n) :
              \A k \in 1..n :
                 LET t == nt[j + k] IN
                 /\ (k > 1 => t.pre = <<>>)
                 /\ (k < n => t.post = <<>> /\ t.w = ev[k].w)
                 /\ (k = n => PrefixOf(ev[k].w, t.w))

Glob(f, d, ev) == {p \in Entries(f, d) : GlobMatch(ev, NameOf(p))}

\* ---------------------------------------------------------------- VideoInfo

\* VideoInfo.__init__ without its exits and without find_names: the fields read
\* from the file name, or from the name of the parent folder when the file name
\* has no event number and the folder name has one.
InfoOf(path) ==
    LET own == Normalize(NameOf(path))
        folder == IF Len(path) > 1 THEN Normalize(NameOf(Parent(path))) ELSE <<>>
        ev1 == get_event_number(own)
        ev2 == get_event_number(folder)
        name == IF ev1 = <<>> /\ ev2 # <<>> THEN folder ELSE own
    IN  [event_number |-> IF ev1 # <<>> THEN ev1 ELSE ev2,
         fighter_names |-> get_fighter_names(name),
         edition |-> get_edition(name),
         resolution |-> get_resolution(name),
         path |-> path]

\* find_names: the names it can return. Each entry matching the glob gives its
\* own names, or, a directory without names, what the search inside it gives;
\* the first entry that gives names decides, in the order of the enumeration,
\* which the file system chooses.
RECURSIVE FoundNames(_, _, _)
FoundNames(f, dir, ev) ==
    UNION {LET info == InfoOf(e) IN
           IF info.fighter_names # <<>> THEN {info.fighter_names}
           ELSE IF IsDir(f, e) THEN FoundNames(f, e, ev)
           ELSE {} : e \in Glob(f, dir, ev)}

find_names(f, dir, ev) ==
    IF FoundNames(f, dir, ev) = {} THEN {<<>>} ELSE FoundNames(f, dir, ev)

\* find_editions: the VideoInfo it can return for an edition. Every file of the
\* folder whose name matches the glob and parses to the same event number is
\* stored under its edition; a later file of the same edition overwrites an
\* earlier one, so any of them can be the one that is left.
\* Faulty variant of find_editions: no file of the folder is found.
find_none(f, dir, ev, edition) == {}

\* find_editions(path, event_number).get(edition): the VideoInfo it can hold
find_editions(f, dir, ev, edition) ==
    {info \in {InfoOf(e) : e \in {g \in Glob(f, dir, ev) : IsFile(f, g)}} :
        info.event_number = ev /\ info.edition = edition}

\* ---------------------------------------------------------------- construct_path

\* Faulty variant of EditionToks: every edition written as the main event.
EditionMain(ed) == <<Tt("main"), Tt("event")>>

\* edition.value, the words of the edition
EditionToks(ed) ==
    IF ed = EARLY_PRELIMS THEN <<Tt("early"), Tt("prelims")>>
    ELSE IF ed = PRELIMS THEN <<Tt("prelims")>>
    ELSE <<Tt("main"), Tt("event")>>

\* f"{left}{value}{right}"
Bracketed(v, left, right) ==
    [i \in 1..Len(v) |->
        [v[i] EXCEPT !.pre = IF i = 1 THEN <<left>> \o @ ELSE @,
                     !.post = IF i = Len(v) THEN @ \o <<right>> ELSE @]]

\* f"edition-{value.value}"
Prefixed(v, prefix) ==
    [i \in 1..Len(v) |-> [v[i] EXCEPT !.pre = IF i = 1 THEN <<prefix>> \o @ ELSE @]]

\* Bracket enum
SQUARE == <<"[", "]">>
CURLY == <<"{", "}">>
ROUND == <<"(", ")">>

in_subfolder(info, c) == c.subfolder # NoName /\ info.edition # MAIN_EVENT

\* getattr(info, part), as words; the edition is never empty
PartValue(info, c, part) ==
    IF part = "event_number" THEN info.event_number
    ELSE IF part = "fighter_names" THEN info.fighter_names
    ELSE IF part = "resolution"
        THEN (IF info.resolution = "" THEN <<>> ELSE <<W(info.resolution)>>)
    ELSE IF in_subfolder(info, c) THEN EditionToks(info.edition)
    ELSE Prefixed(EditionToks(info.edition), "edition-")

\* The loop over Config.format_order from position i on: the words of the file
\* name and of the folder name.
RECURSIVE PathParts(_, _, _)
PathParts(info, c, i) ==
    IF i > Len(c.format_order) THEN [parts |-> <<>>, folder_parts |-> <<>>]
    ELSE
        LET part == c.format_order[i]
            value == PartValue(info, c, part)
            rest == PathParts(info, c, i + 1)
            inFolder == IF part \in c.format_folder THEN value ELSE <<>>
            decorated == IF part \in DOMAIN c.format_tokens
                         THEN Bracketed(value, c.format_tokens[part][1],
                                        c.format_tokens[part][2])
                         ELSE value
            inFile == IF in_subfolder(info, c) /\ part \notin c.format_subfolder
                      THEN <<>> ELSE decorated
        IN  IF value = <<>> THEN rest
            ELSE [parts |-> inFile \o rest.parts,
                  folder_parts |-> inFolder \o rest.folder_parts]

\* The characters \ / : * ? " < > | : no word the patterns extract has one.
HasInvalidChar(t) == FALSE

\* Faulty variant of is_valid_folder_name: every name passes.
AnyFolderName(toks) == TRUE

is_valid_folder_name(toks) ==
    /\ toks # <<>>
    /\ \A i \in 1..Len(toks) : ~HasInvalidChar(toks[i])

\* construct_path after VideoInfo: the new path of the file
construct_path(info, c) ==
    LET pp == PathParts(info, c, 1)
        folder == DestinationFolder \o <<MkName(pp.folder_parts, "", " ")>>
        dest == IF in_subfolder(info, c) THEN folder \o <<c.subfolder>> ELSE folder
    IN  dest \o <<MkName(pp.parts, NameOf(info.path).ext, " ")>>

\* ---------------------------------------------------------------- configuration

\* Config's format settings as the class defines them (subfolder "Other")
DefaultTemplate ==
    [subfolder |-> OtherName,
     format_order |-> <<"event_number", "fighter_names", "edition", "resolution">>,
     format_tokens |-> [edition |-> CURLY, resolution |-> SQUARE],
     format_folder |-> {"event_number", "fighter_names"},
     format_subfolder |-> {"event_number", "edition"}]

\* The format settings ufc.ini can hold, by name: the defaults; the defaults
\* with subfolder = none; the defaults with the resolution in round brackets.
Templates ==
    [default |-> DefaultTemplate,
     flat |-> [DefaultTemplate EXCEPT !.subfolder = NoName],
     round |-> [DefaultTemplate EXCEPT !.format_tokens.resolution = ROUND]]

\* Format settings ufc.ini can hold besides: the parts in another order with
\* the event number in round brackets; a subfolder whose file names keep all
\* the parts; one whose file names keep the edition and the resolution only;
\* folders named by the fighter names alone.
Formats ==
    Templates @@
    [reordered |-> [DefaultTemplate EXCEPT
                      !.format_order = <<"resolution", "edition", "event_number",
                                         "fighter_names">>,
                      !.format_tokens = [edition |-> CURLY, resolution |-> SQUARE,
                                         event_number |-> ROUND]],
     full |-> [DefaultTemplate EXCEPT
                  !.format_subfolder = {"event_number", "fighter_names", "edition",
                                        "resolution"}],
     short |-> [DefaultTemplate EXCEPT !.format_subfolder = {"edition", "resolution"}],
     names |-> [DefaultTemplate EXCEPT !.format_folder = {"fighter_names"}]]

\* ---------------------------------------------------------------- downloads

Raw(ws, ext, sep) == MkName([i \in 1..Len(ws) |-> W(ws[i])], ext, sep)

\* The downloaded files the runs are given: the name of each in the download
\* folder, under the identity of its content.
DownloadNames ==
    [a720 |-> Raw(<<"ufc", "300", "pereira", "vs", "hill", "720p">>, "mkv", "."),
     b720 |-> Raw(<<"ufc", "300", "pereira", "vs", "hill", "720p">>, "mkv", "_"),
     c720 |-> Raw(<<"ufc", "300", "pereira", "vs", "hill", "720p">>, "mp4", "."),
     d1080 |-> Raw(<<"ufc", "300", "pereira", "vs", "hill", "1080p">>, "mkv", "."),
     e |-> Raw(<<"ufc", "300", "pereira", "vs", "hill", "web">>, "mkv", "."),
     p720 |-> Raw(<<"ufc", "300", "prelims", "720p">>, "mp4", "."),
     p1080 |-> Raw(<<"ufc", "300", "prelims", "1080p">>, "mkv", "."),
     q720 |-> Raw(<<"ufc", "300", "prelims", "720p">>, "mkv", "."),
     v |-> Raw(<<"video">>, "mkv", " ")]

Downloads == {DownloadFolder \o <<DownloadNames[id]>> : id \in DOMAIN DownloadNames}

\* the content of a downloaded file
ContentOf(path) == CHOOSE id \in DOMAIN DownloadNames : DownloadNames[id] = NameOf(path)

\* the number of runs of the script in a behaviour
MaxCalls == 3
\* the number of operations of the file system that fail in a behaviour
MaxFaults == 1
\* the number of times the format settings of ufc.ini are changed in a behaviour
MaxEdits == 1

\* What an operation of the operating system can do when it is reached: fail
\* only while fewer than MaxFaults operations have failed.
MayFail(n) == IF n < MaxFaults THEN BOOLEAN ELSE {FALSE}

\* the processes that run the script
Procs == {"a", "b"}

VARIABLES
    fs,        \* the file system
    ini,       \* the format settings in ufc.ini, by name
    cfg,       \* Config of each process
    pc,        \* where each process is in rename_and_move
    loc,       \* the local variables of rename_and_move and move_file
    outcome,   \* how the call of each process ended
    fs0,       \* the file system when the call of each process began
    effects,   \* the operations each call has done on the file system
    calls,     \* the number of runs begun
    faults,    \* the number of operations of the file system that failed
    edits,     \* the number of changes of ufc.ini
    walk,      \* the run of bulk_rename: its frames, one for each directory entered
    rank,      \* a comparison of two resolutions, for the ranking taken alone
    trip,      \* a descriptor formatted and parsed back, for the formatter taken alone
    overlap    \* whether a run has begun while another was in progress

vars == <<fs, ini, cfg, pc, loc, outcome, fs0, effects, calls, faults, edits, walk, rank, trip, overlap>>

NoOutcome == [kind |-> "none", code |-> 0, msg |-> ""]
NoLoc == [file_path |-> <<>>, new_path |-> <<>>, x_path |-> <<>>]

\* Config before load_from_ini and parse_args: a flag is "unset" until the run
\* reads it, and is fixed from then on; the run reads the template at its start.
NoConfig ==
    [template |-> "default", dry_run |-> FALSE,
     replace_same_res |-> "unset", strict_matching |-> "unset"]

Flag == {"true", "false"}

\* no run of bulk_rename
NoWalk ==
    [status |-> "idle", stack |-> <<>>, remove_empty |-> FALSE, log |-> <<>>, res |-> 0,
     failed |-> {}]

\* no descriptor
NoTrip == [stage |-> "none"]

\* no comparison
NoRank ==
    [stage |-> "none", incoming |-> "", existing |-> "", replace |-> "false",
     new |-> 0, old |-> 0, verdict |-> ""]

Init ==
    /\ fs = [files |-> [f \in Downloads |-> ContentOf(f)],
             dirs |-> {DestinationFolder, DownloadFolder}]
    /\ ini \in DOMAIN Templates
    /\ cfg = [p \in Procs |-> NoConfig]
    /\ pc = [p \in Procs |-> "idle"]
    /\ loc = [p \in Procs |-> NoLoc]
    /\ outcome = [p \in Procs |-> NoOutcome]
    /\ fs0 = [p \in Procs |-> fs]
    /\ effects = [p \in Procs |-> <<>>]
    /\ calls = 0
    /\ faults = 0
    /\ edits = 0
    /\ walk = NoWalk
    /\ rank = NoRank
    /\ trip = NoTrip
    /\ overlap = FALSE

\* return message, code
Return(p, msg, code) ==
    /\ outcome' = [outcome EXCEPT ![p] = [kind |-> "return", code |-> code, msg |-> msg]]
    /\ pc' = [pc EXCEPT ![p] = "done"]

\* exit_log(message, exit_code): sys.exit
ExitLog(p, msg, code) ==
    /\ outcome' = [outcome EXCEPT ![p] = [kind |-> "exit", code |-> code, msg |-> msg]]
    /\ pc' = [pc EXCEPT ![p] = "done"]

\* an exception no handler catches
Raise(p, msg) ==
    /\ outcome' = [outcome EXCEPT ![p] = [kind |-> "crash", code |-> 1, msg |-> msg]]
    /\ pc' = [pc EXCEPT ![p] = "done"]

Goto(p, label) ==
    /\ pc' = [pc EXCEPT ![p] = label]
    /\ UNCHANGED outcome

Did(p, op) == effects' = [effects EXCEPT ![p] = Append(@, op)]

\* The user changes the format settings of ufc.ini between two runs.
EditIni(t) ==
    /\ \A p \in Procs : pc[p] = "idle"
    /\ edits < MaxEdits
    /\ calls < MaxCalls
    /\ t # ini
    /\ ini' = t
    /\ edits' = edits + 1
    /\ UNCHANGED <<fs, cfg, pc, loc, outcome, fs0, effects, calls, faults, walk, rank, trip, overlap>>

\* main, lines 1135-1175: one run of the script on a video file; Config is
\* loaded, with the dry-run flag of the run.
Call(p, f, dry) ==
    /\ pc[p] = "idle"
    /\ walk.status = "idle"
    /\ calls < MaxCalls
    /\ IsFile(fs, f)
    /\ calls' = calls + 1
    /\ cfg' = [cfg EXCEPT ![p] = [NoConfig EXCEPT !.template = ini, !.dry_run = dry]]
    /\ fs0' = [fs0 EXCEPT ![p] = fs]
    /\ loc' = [loc EXCEPT ![p] = [NoLoc EXCEPT !.file_path = f]]
    /\ pc' = [pc EXCEPT ![p] = "construct_path"]
    /\ overlap' = (overlap \/ \E q \in Procs \ {p} : pc[q] \notin {"idle", "done"})
    /\ UNCHANGED <<fs, ini, outcome, effects, faults, edits, walk, rank, trip>>

\* main, line 1175: the run ends, by exit_log, by sys.exit or by the exception
EndOfRun(p) ==
    /\ pc[p] = "done"
    /\ walk.status = "idle"
    /\ pc' = [pc EXCEPT ![p] = "idle"]
    /\ loc' = [loc EXCEPT ![p] = NoLoc]
    /\ outcome' = [outcome EXCEPT ![p] = NoOutcome]
    /\ effects' = [effects EXCEPT ![p] = <<>>]
    /\ fs0' = [fs0 EXCEPT ![p] = fs]
    /\ cfg' = [cfg EXCEPT ![p] = NoConfig]
    /\ UNCHANGED <<fs, ini, calls, faults, edits, walk, rank, trip, overlap>>

\* A flag of Config as the run reads it: its value once fixed, either value before
ReadFlag(v) == IF v = "unset" THEN Flag ELSE {v}

\* VideoInfo(file_path) with strict = True: InfoOf, and the names find_names
\* gives when the name has none.
VideoInfoStrict(f, path) ==
    LET info == InfoOf(path) IN
    IF info.fighter_names # <<>> THEN {info}
    ELSE {[info EXCEPT !.fighter_names = n] :
             n \in find_names(f, DestinationFolder, info.event_number)}

\* Faulty variant of NoEventNumber: the silent exit under either policy.
AlwaysSilent(sm) == [msg |-> "", code |-> 0]

\* lines 101-107: the exit of VideoInfo when no event number is found, by
\* Config.strict_matching: the error exit, or the silent exit
NoEventNumber(sm) ==
    IF sm = "true"
    THEN [msg |-> "Unable to extract UFC event number", code |-> 1]
    ELSE [msg |-> "", code |-> 0]

\* rename_and_move, line 889: construct_path(file_path), with the exits of
\* VideoInfo.__init__ and of construct_path
ConstructPath(p) ==
    /\ pc[p] = "construct_path"
    /\ LET path == loc[p].file_path
           t == Formats[cfg[p].template]
       IN
       IF ~Exists(fs, path)
       THEN ExitLog(p, "does not exist", 1) /\ UNCHANGED <<loc, cfg>>
       ELSE IF InfoOf(path).event_number = <<>>
       THEN /\ \E sm \in ReadFlag(cfg[p].strict_matching) :
                  /\ cfg' = [cfg EXCEPT ![p].strict_matching = sm]
                  /\ ExitLog(p, NoEventNumber(sm).msg, NoEventNumber(sm).code)
            /\ UNCHANGED loc
       ELSE \E info \in VideoInfoStrict(fs, path) :
               IF ~is_valid_folder_name(PathParts(info, t, 1).folder_parts)
               THEN ExitLog(p, "Invalid folder name", 1) /\ UNCHANGED <<loc, cfg>>
               ELSE /\ loc' = [loc EXCEPT ![p].new_path = construct_path(info, t)]
                    /\ Goto(p, "placement")
                    /\ UNCHANGED cfg
    /\ UNCHANGED <<fs, ini, fs0, effects, calls, faults, edits, walk, rank, trip, overlap>>

\* int(resolution[:-1])
ResNum(r) ==
    CASE r = "480p" -> 480
      [] r = "720p" -> 720
      [] r = "1080p" -> 1080
      [] r = "2160p" -> 2160

\* Faulty variant of new_res: a file of no resolution ranked lowest on both sides.
new_res_zero(r) == IF r = "" THEN 0 ELSE ResNum(r)

\* line 914: new_res = int(info.resolution[:-1] or 99999)
new_res(r) == IF r = "" THEN 99999 ELSE ResNum(r)
\* line 915: old_res = int(x_info.resolution[:-1] or 0)
old_res(r) == IF r = "" THEN 0 ELSE ResNum(r)

\* Faulty variant of Compare: the two ranks exchanged.
CompareReversed(new, old, replace) ==
    IF old = new \/ old > new
    THEN IF new = old /\ replace # "true" THEN "same resolution" ELSE "replace"
    ELSE "higher resolution"

\* Faulty variant of Compare: a higher existing resolution is not told apart.
CompareNeverHigher(new, old, replace) ==
    IF new = old /\ replace # "true" THEN "same resolution" ELSE "replace"

\* lines 917-953: what the comparison of the resolutions decides
Compare(new, old, replace) ==
    IF new = old \/ new > old
    THEN IF new = old /\ replace # "true" THEN "same resolution" ELSE "replace"
    ELSE "higher resolution"

\* Faulty variant of TargetExists: only a directory at the target is seen.
TargetIsDir(f, new_path) == IsDir(f, new_path)

\* line 891: new_path.exists()
TargetExists(f, new_path) == Exists(f, new_path)

\* Faulty variant of ExistingPaths: the folder is not scanned.
ExistingNone(f, new_path, info) == {<<>>}

\* lines 906-908: the paths existing.get(info.edition) can be of; <<>> is None
ExistingPaths(f, new_path, info) ==
    LET found == find_editions(f, Parent(new_path), info.event_number, info.edition)
    IN  IF found = {} THEN {<<>>} ELSE {x.path : x \in found}

\* Faulty variant of NothingToReplace: the source is not told from the others.
OnlyNone(x, file_path) == x = <<>>

\* line 910: x_info is None or x_info.path == file_path
NothingToReplace(x, file_path) == x = <<>> \/ x = file_path

\* rename_and_move, lines 891-953, up to the delete or the move
Placement(p) ==
    /\ pc[p] = "placement"
    /\ LET new_path == loc[p].new_path
           info == InfoOf(loc[p].file_path)
       IN
       IF TargetExists(fs, new_path)
       THEN Return(p, "already exists", 1) /\ UNCHANGED <<loc, cfg>>
       ELSE IF ~Exists(fs, Parent(new_path))
       THEN Goto(p, "move_file") /\ UNCHANGED <<loc, cfg>>
       ELSE \E x \in ExistingPaths(fs, new_path, info) :
               IF NothingToReplace(x, loc[p].file_path)
               THEN Goto(p, "move_file") /\ UNCHANGED <<loc, cfg>>
               ELSE
                 LET new == new_res(info.resolution)
                     old == old_res(InfoOf(x).resolution)
                 IN  /\ loc' = [loc EXCEPT ![p].x_path = x]
                     /\ IF new # old
                        THEN /\ UNCHANGED cfg
                             /\ IF Compare(new, old, "unset") = "replace"
                                THEN Goto(p, "unlink")
                                ELSE Return(p, Compare(new, old, "unset"), 1)
                        ELSE \E rs \in ReadFlag(cfg[p].replace_same_res) :
                                /\ cfg' = [cfg EXCEPT ![p].replace_same_res = rs]
                                /\ IF Compare(new, old, rs) = "replace"
                                   THEN Goto(p, "unlink")
                                   ELSE Return(p, Compare(new, old, rs), 1)
    /\ UNCHANGED <<fs, ini, fs0, effects, calls, faults, edits, walk, rank, trip, overlap>>

\* Faulty variant of RemoveFile: the file stays.
RemoveNothing(f, path) == f

\* Path.unlink
RemoveFile(f, path) ==
    [f EXCEPT !.files = [q \in (DOMAIN f.files) \ {path} |-> f.files[q]]]

\* Faulty variant of DryRun: the flag is not looked at.
NeverDry(c) == FALSE

\* line 931 and line 839: if Config.dry_run
DryRun(c) == c.dry_run

\* rename_and_move, lines 931-937: x_info.path.unlink(), an OSError printed
Unlink(p) ==
    /\ pc[p] = "unlink"
    /\ IF DryRun(cfg[p])
       THEN UNCHANGED <<fs, effects, faults>>
       ELSE \E fail \in MayFail(faults) :
               IF fail \/ ~IsFile(fs, loc[p].x_path)
               THEN /\ Did(p, "unlink failed")
                    /\ faults' = IF fail THEN faults + 1 ELSE faults
                    /\ UNCHANGED fs
               ELSE /\ fs' = RemoveFile(fs, loc[p].x_path)
                    /\ Did(p, "unlink")
                    /\ UNCHANGED faults
    /\ Goto(p, "move_file")
    /\ UNCHANGED <<ini, cfg, loc, fs0, calls, edits, walk, rank, trip, overlap>>

\* move_file, lines 839-849
MoveFile(p) ==
    /\ pc[p] = "move_file"
    /\ IF DryRun(cfg[p])
       THEN Return(p, "Moved", 0)
       ELSE IF ~Exists(fs, Parent(loc[p].new_path))
       THEN Goto(p, "mkdir")
       ELSE Goto(p, "shutil_move")
    /\ UNCHANGED <<fs, ini, cfg, loc, fs0, effects, calls, faults, edits, walk, rank, trip, overlap>>

Ancestors(path) == {SubSeq(path, 1, k) : k \in 1..Len(path)}

\* move_file, lines 850-855: parent.mkdir(parents=True, exist_ok=True)
Mkdir(p) ==
    /\ pc[p] = "mkdir"
    /\ \E fail \in MayFail(faults) :
          IF fail
          THEN /\ Return(p, "Failed to create directory", 1)
               /\ Did(p, "mkdir failed")
               /\ faults' = faults + 1
               /\ UNCHANGED fs
          ELSE /\ fs' = [fs EXCEPT !.dirs = @ \cup Ancestors(Parent(loc[p].new_path))]
               /\ Did(p, "mkdir")
               /\ Goto(p, "shutil_move")
               /\ UNCHANGED faults
    /\ UNCHANGED <<ini, cfg, loc, fs0, calls, edits, walk, rank, trip, overlap>>

\* shutil.move(src, dst) of a file: src is renamed to dst, replacing a file there
Moved(f, src, dst) ==
    [f EXCEPT !.files = [q \in ((DOMAIN f.files) \ {src}) \cup {dst} |->
                            IF q = dst THEN f.files[src] ELSE f.files[q]]]

\* What shutil.move can raise when the operating system refuses the move
MoveErrors == {"shutil.Error", "OSError"}

\* except shutil.Error, line 864: the exceptions of the move that are caught
Caught(e) == e = "shutil.Error"

\* move_file, lines 860-865
ShutilMove(p) ==
    /\ pc[p] = "shutil_move"
    /\ LET src == loc[p].file_path
           dst == loc[p].new_path
       IN
       \E fail \in MayFail(faults) :
          IF fail
          THEN /\ \E e \in MoveErrors :
                     IF Caught(e) THEN Return(p, "Failed to move", 1)
                     ELSE Raise(p, e)
               /\ Did(p, "move failed")
               /\ faults' = faults + 1
               /\ UNCHANGED fs
          ELSE IF ~IsFile(fs, src) \/ ~IsDir(fs, Parent(dst))
          THEN /\ Raise(p, "OSError")
               /\ Did(p, "move failed")
               /\ UNCHANGED <<fs, faults>>
          ELSE /\ fs' = Moved(fs, src, dst)
               /\ Did(p, "move")
               /\ Goto(p, "check_permissions")
               /\ UNCHANGED faults
    /\ UNCHANGED <<ini, cfg, loc, fs0, calls, edits, walk, rank, trip, overlap>>

\* move_file, lines 867-872
CheckPermissions(p) ==
    /\ pc[p] = "check_permissions"
    /\ \E fail \in MayFail(faults) :
          IF fail
          THEN /\ Return(p, "Failed permission check", 1)
               /\ Did(p, "check_permissions failed")
               /\ faults' = faults + 1
          ELSE /\ Return(p, "Moved", 0)
               /\ UNCHANGED <<effects, faults>>
    /\ UNCHANGED <<fs, ini, cfg, loc, fs0, calls, edits, walk, rank, trip, overlap>>

\* One process runs the script, one run after the other.
Next ==
    \/ \E t \in DOMAIN Templates : EditIni(t)
    \/ \E f \in DOMAIN fs.files, dry \in BOOLEAN : Call("a", f, dry)
    \/ ConstructPath("a")
    \/ Placement("a")
    \/ Unlink("a")
    \/ MoveFile("a")
    \/ Mkdir("a")
    \/ ShutilMove("a")
    \/ CheckPermissions("a")
    \/ EndOfRun("a")

Spec == Init /\ [][Next]_vars

\* The runs of the script when ufc.ini names the folders by the fighter names
\* alone, or is changed between that and the defaults.
FolderFormats == {"default", "names"}

InitFolder ==
    /\ fs = [files |-> [f \in Downloads |-> ContentOf(f)],
             dirs |-> {DestinationFolder, DownloadFolder}]
    /\ ini \in FolderFormats
    /\ cfg = [p \in Procs |-> NoConfig]
    /\ pc = [p \in Procs |-> "idle"]
    /\ loc = [p \in Procs |-> NoLoc]
    /\ outcome = [p \in Procs |-> NoOutcome]
    /\ fs0 = [p \in Procs |-> fs]
    /\ effects = [p \in Procs |-> <<>>]
    /\ calls = 0
    /\ faults = 0
    /\ edits = 0
    /\ walk = NoWalk
    /\ rank = NoRank
    /\ trip = NoTrip
    /\ overlap = FALSE

NextFolder ==
    \/ \E t \in FolderFormats : EditIni(t)
    \/ \E f \in DOMAIN fs.files, dry \in BOOLEAN : Call("a", f, dry)
    \/ ConstructPath("a")
    \/ Placement("a")
    \/ Unlink("a")
    \/ MoveFile("a")
    \/ Mkdir("a")
    \/ ShutilMove("a")
    \/ CheckPermissions("a")
    \/ EndOfRun("a")

SpecFolder == InitFolder /\ [][NextFolder]_vars

\* ---------------------------------------------------------------- two processes

\* The downloads of the two processes: three files of one event and edition,
\* two of them with the same target path.
RaceDownloads == {"a720", "b720", "d1080"}

InitRace ==
    /\ fs = [files |-> [f \in {DownloadFolder \o <<DownloadNames[id]>> :
                                  id \in RaceDownloads} |-> ContentOf(f)],
             dirs |-> {DestinationFolder, DownloadFolder}]
    /\ ini = "default"
    /\ cfg = [p \in Procs |-> NoConfig]
    /\ pc = [p \in Procs |-> "idle"]
    /\ loc = [p \in Procs |-> NoLoc]
    /\ outcome = [p \in Procs |-> NoOutcome]
    /\ fs0 = [p \in Procs |-> fs]
    /\ effects = [p \in Procs |-> <<>>]
    /\ calls = 0
    /\ faults = 0
    /\ edits = 0
    /\ walk = NoWalk
    /\ rank = NoRank
    /\ trip = NoTrip
    /\ overlap = FALSE

\* Two processes run the script, each one run after the other, the steps of
\* the two in any order.
NextRace ==
    \E p \in Procs :
        \/ \E f \in DOMAIN fs.files, dry \in BOOLEAN : Call(p, f, dry)
        \/ ConstructPath(p)
        \/ Placement(p)
        \/ Unlink(p)
        \/ MoveFile(p)
        \/ Mkdir(p)
        \/ ShutilMove(p)
        \/ CheckPermissions(p)
        \/ EndOfRun(p)

SpecRace == InitRace /\ [][NextRace]_vars

\* ---------------------------------------------------------------- bulk_rename

\* Config.video_extensions, line 153
video_extensions == {"mp4", "mkv", "avi", "mov"}

\* line 989: path.name.startswith(".")
Hidden(name) ==
    /\ name.toks # <<>>
    /\ name.toks[1].pre # <<>>
    /\ name.toks[1].pre[1] = "."

\* line 1013: path.suffix.lower() in Config.video_extensions
IsVideo(name) == name.ext \in video_extensions

\* Faulty variant of Skipped: only the hidden entries are passed over.
SkippedHidden(e, in_ufc_folder) == Hidden(NameOf(e))

\* lines 989-996: the entries the loop passes over
Skipped(e, in_ufc_folder) ==
    \/ Hidden(NameOf(e))
    \/ ~in_ufc_folder /\ get_event_number(Normalize(NameOf(e))) = <<>>

\* A call of bulk_rename: the directory, the entries os.scandir had when the
\* call began, the entries the loop has taken, res, in_ufc_folder.
Frame(f, dir, in_ufc_folder) ==
    [dir |-> dir, snap |-> Entries(f, dir), seen |-> {}, res |-> 0,
     in_ufc_folder |-> in_ufc_folder]

Top == walk.stack[Len(walk.stack)]

\* The entries os.scandir can give next: those the directory had when the scan
\* began, and those put in the directory since, which it gives or not.
Pending(f, fr) == (fr.snap \cup Entries(f, fr.dir)) \ fr.seen

\* the loop has taken entry e, and adds subres to res
Taken(e, subres) ==
    [walk EXCEPT !.stack[Len(walk.stack)] =
        [Top EXCEPT !.seen = @ \cup {e}, !.res = @ + subres]]

Walking == walk.status = "running" /\ pc["a"] = "idle"

\* the entries the loop of the running call can take
Next_entries == IF walk.stack = <<>> THEN {} ELSE Pending(fs, Top)

\* parse_args, lines 1085-1111: the script is run with --rename-all on a directory
BulkStart(dir, remove_empty, dry) ==
    /\ walk.status = "idle"
    /\ pc["a"] = "idle"
    /\ calls < MaxCalls
    /\ IsDir(fs, dir)
    /\ calls' = calls + 1
    /\ cfg' = [cfg EXCEPT !["a"] = [NoConfig EXCEPT !.template = ini, !.dry_run = dry]]
    /\ walk' = [status |-> "running", stack |-> <<Frame(fs, dir, FALSE)>>,
                remove_empty |-> remove_empty, log |-> <<>>, res |-> 0,
                failed |-> {}]
    /\ UNCHANGED <<fs, ini, pc, loc, outcome, fs0, effects, faults, edits, rank, trip, overlap>>

\* lines 987-996: continue
BulkSkip(e) ==
    /\ Walking
    /\ Skipped(e, Top.in_ufc_folder)
    /\ walk' = Taken(e, 0)
    /\ UNCHANGED <<fs, ini, cfg, pc, loc, outcome, fs0, effects, calls, faults, edits, rank, trip, overlap>>

\* lines 1000-1001: bulk_rename(path, remove_empty, in_ufc_folder=True)
BulkDescend(e) ==
    /\ Walking
    /\ ~Skipped(e, Top.in_ufc_folder)
    /\ IsDir(fs, e)
    /\ walk' = [walk EXCEPT !.stack = Append(Taken(e, 0).stack, Frame(fs, e, TRUE))]
    /\ UNCHANGED <<fs, ini, cfg, pc, loc, outcome, fs0, effects, calls, faults, edits, rank, trip, overlap>>

\* lines 1013-1014: rename_and_move(path) is called
BulkFile(e) ==
    /\ Walking
    /\ ~Skipped(e, Top.in_ufc_folder)
    /\ IsFile(fs, e) /\ IsVideo(NameOf(e))
    /\ walk' = Taken(e, 0)
    /\ loc' = [loc EXCEPT !["a"] = [NoLoc EXCEPT !.file_path = e]]
    /\ fs0' = [fs0 EXCEPT !["a"] = fs]
    /\ pc' = [pc EXCEPT !["a"] = "construct_path"]
    /\ UNCHANGED <<fs, ini, cfg, outcome, effects, calls, faults, edits, rank, trip, overlap>>

\* lines 998-1018: neither a directory nor a video file, subres = 0
BulkOther(e) ==
    /\ Walking
    /\ ~Skipped(e, Top.in_ufc_folder)
    /\ ~IsDir(fs, e)
    /\ ~(IsFile(fs, e) /\ IsVideo(NameOf(e)))
    /\ walk' = Taken(e, 0)
    /\ UNCHANGED <<fs, ini, cfg, pc, loc, outcome, fs0, effects, calls, faults, edits, rank, trip, overlap>>

\* lines 1014-1020: rename_and_move has returned, res += exit_code
BulkFileDone ==
    /\ walk.status = "running"
    /\ pc["a"] = "done"
    /\ outcome["a"].kind = "return"
    /\ walk' = [walk EXCEPT !.stack[Len(walk.stack)].res = @ + outcome["a"].code,
                            !.failed = IF outcome["a"].code = 0 THEN @
                                       ELSE @ \cup {loc["a"].file_path}]
    /\ pc' = [pc EXCEPT !["a"] = "idle"]
    /\ loc' = [loc EXCEPT !["a"] = NoLoc]
    /\ outcome' = [outcome EXCEPT !["a"] = NoOutcome]
    /\ effects' = [effects EXCEPT !["a"] = <<>>]
    /\ fs0' = [fs0 EXCEPT !["a"] = fs]
    /\ UNCHANGED <<fs, ini, cfg, calls, faults, edits, rank, trip, overlap>>

\* rename_and_move has ended by sys.exit or by an exception: so does the run
BulkAbort ==
    /\ walk.status = "running"
    /\ pc["a"] = "done"
    /\ outcome["a"].kind # "return"
    /\ walk' = [walk EXCEPT !.status = "exited", !.stack = <<>>,
                            !.res = outcome["a"].code]
    /\ pc' = [pc EXCEPT !["a"] = "idle"]
    /\ loc' = [loc EXCEPT !["a"] = NoLoc]
    /\ outcome' = [outcome EXCEPT !["a"] = NoOutcome]
    /\ effects' = [effects EXCEPT !["a"] = <<>>]
    /\ fs0' = [fs0 EXCEPT !["a"] = fs]
    /\ UNCHANGED <<fs, ini, cfg, calls, faults, edits, rank, trip, overlap>>

RemoveDir(f, dir) == [f EXCEPT !.dirs = @ \ {dir}]

\* Faulty variant of RemoveEmpty: the errors of the subdirectory are not looked at.
RemoveAnyEmpty(subres, remove_empty, entries) == remove_empty /\ entries = {}

\* line 1003: not subres and remove_empty and not any(path.iterdir())
RemoveEmpty(subres, remove_empty, entries) ==
    subres = 0 /\ remove_empty /\ entries = {}

\* lines 1001-1020: the call on a subdirectory returns subres; the directory is
\* removed when subres is 0, remove_empty is set and it has no entry
BulkReturn ==
    /\ Walking
    /\ Len(walk.stack) > 1
    /\ Top.snap \subseteq Top.seen
    /\ LET dir == Top.dir
           subres == Top.res
           n == Len(walk.stack)
           back == [walk EXCEPT !.stack =
                       [SubSeq(walk.stack, 1, n - 1) EXCEPT ![n - 1].res = @ + subres]]
           note(w, op) == [w EXCEPT !.log = Append(@, op)]
       IN
       IF RemoveEmpty(subres, walk.remove_empty, Entries(fs, dir))
       THEN IF DryRun(cfg["a"])
            THEN /\ walk' = note(back, "dry rmdir")
                 /\ UNCHANGED <<fs, faults>>
            ELSE \E fail \in MayFail(faults) :
                    IF fail
                    THEN /\ walk' = note(back, "rmdir failed")
                         /\ faults' = faults + 1
                         /\ UNCHANGED fs
                    ELSE /\ walk' = note(back, "rmdir")
                         /\ fs' = RemoveDir(fs, dir)
                         /\ UNCHANGED faults
       ELSE /\ walk' = back
            /\ UNCHANGED <<fs, faults>>
    /\ UNCHANGED <<ini, cfg, pc, loc, outcome, fs0, effects, calls, edits, rank, trip, overlap>>

\* lines 1022 and 1111-1112: the first call returns res, exit_log("Done.", 0)
BulkEnd ==
    /\ Walking
    /\ Len(walk.stack) = 1
    /\ Top.snap \subseteq Top.seen
    /\ walk' = [walk EXCEPT !.status = "returned", !.stack = <<>>, !.res = Top.res]
    /\ UNCHANGED <<fs, ini, cfg, pc, loc, outcome, fs0, effects, calls, faults, edits, rank, trip, overlap>>

\* the process of the run is over
EndOfBulk ==
    /\ walk.status \in {"returned", "exited"}
    /\ walk' = NoWalk
    /\ cfg' = [cfg EXCEPT !["a"] = NoConfig]
    /\ UNCHANGED <<fs, ini, pc, loc, outcome, fs0, effects, calls, faults, edits, rank, trip, overlap>>

\* The file system after rename_and_move has moved the downloaded file src
\* under the format settings t.
Stored(f, src, t) ==
    LET dst == construct_path(InfoOf(src), Templates[t])
    IN  Moved([f EXCEPT !.dirs = @ \cup Ancestors(Parent(dst))], src, dst)

\* the downloads of the runs of bulk_rename
BulkDownloads == {"a720", "d1080", "p720", "v"}
Download(id) == DownloadFolder \o <<DownloadNames[id]>>
\* a file that is not a video, beside the downloads
Nfo == DownloadFolder \o <<Raw(<<"ufc", "300", "pereira", "vs", "hill">>, "nfo", ".")>>

\* a video without an event number in its name, in a subfolder "Other" of the
\* folder of an event
Stray ==
    DestinationFolder
      \o <<MkName(<<Up("ufc"), W("300"), Tt("pereira"), W("vs"), Tt("hill")>>, "", " "),
           OtherName, DownloadNames.v>>
\* a folder of the download folder whose name has no event number, and a video
\* of an event in it
Unrelated == DownloadFolder \o <<Raw(<<"video">>, "", " ")>>
UnrelatedVideo == Unrelated \o <<DownloadNames.p1080>>

\* The library the runs of bulk_rename begin on: two files placed under the
\* default format settings, two downloads and a file that is no video waiting,
\* and an unrelated folder.
Library ==
    LET f0 == [files |-> [f \in {Download(id) : id \in BulkDownloads} \cup {Nfo} |->
                             IF f = Nfo THEN "nfo" ELSE ContentOf(f)],
               dirs |-> {DestinationFolder, DownloadFolder}]
        f1 == Stored(Stored(f0, Download("a720"), "default"), Download("p720"), "default")
    IN  [files |-> f1.files @@ (UnrelatedVideo :> "u"),
         dirs |-> f1.dirs \cup {Unrelated}]

\* the library, and the library with the stray video in it
Libraries ==
    {Library,
     [files |-> Library.files @@ (Stray :> "s"),
      dirs |-> Library.dirs \cup {Parent(Stray)}]}

InitBulk ==
    /\ fs \in Libraries
    /\ ini \in DOMAIN Templates
    /\ cfg = [p \in Procs |-> NoConfig]
    /\ pc = [p \in Procs |-> "idle"]
    /\ loc = [p \in Procs |-> NoLoc]
    /\ outcome = [p \in Procs |-> NoOutcome]
    /\ fs0 = [p \in Procs |-> fs]
    /\ effects = [p \in Procs |-> <<>>]
    /\ calls = 0
    /\ faults = 0
    /\ edits = 0
    /\ walk = NoWalk
    /\ rank = NoRank
    /\ trip = NoTrip
    /\ overlap = FALSE

\* Runs of the script on a downloaded file and runs with --rename-all on the
\* library or on the download folder, one after the other.
NextBulk ==
    \/ \E dir \in {DestinationFolder, DownloadFolder}, remove_empty \in BOOLEAN,
          dry \in BOOLEAN : BulkStart(dir, remove_empty, dry)
    \/ \E e \in Next_entries : BulkSkip(e)
    \/ \E e \in Next_entries : BulkDescend(e)
    \/ \E e \in Next_entries : BulkFile(e)
    \/ \E e \in Next_entries : BulkOther(e)
    \/ BulkFileDone
    \/ BulkAbort
    \/ BulkReturn
    \/ BulkEnd
    \/ EndOfBulk
    \/ \E f \in DOMAIN fs.files, dry \in BOOLEAN : Call("a", f, dry)
    \/ ConstructPath("a")
    \/ Placement("a")
    \/ Unlink("a")
    \/ MoveFile("a")
    \/ Mkdir("a")
    \/ ShutilMove("a")
    \/ CheckPermissions("a")
    \/ EndOfRun("a")

SpecBulk == InitBulk /\ [][NextBulk]_vars

\* ---------------------------------------------------------------- the ranking alone

\* What get_resolution can return
Resolutions == {""} \cup ResWords

\* The comparison of rename_and_move, lines 914-953, on every pair of
\* resolutions and every value of replace_same_res.
InitRank ==
    /\ rank \in [stage : {"start"}, incoming : Resolutions, existing : Resolutions,
                 replace : Flag, new : {0}, old : {0}, verdict : {""}]
    /\ fs = [files |-> [f \in Downloads |-> ContentOf(f)],
             dirs |-> {DestinationFolder, DownloadFolder}]
    /\ ini = "default"
    /\ cfg = [p \in Procs |-> NoConfig]
    /\ pc = [p \in Procs |-> "idle"]
    /\ loc = [p \in Procs |-> NoLoc]
    /\ outcome = [p \in Procs |-> NoOutcome]
    /\ fs0 = [p \in Procs |-> fs]
    /\ effects = [p \in Procs |-> <<>>]
    /\ calls = 0
    /\ faults = 0
    /\ edits = 0
    /\ walk = NoWalk
    /\ trip = NoTrip
    /\ overlap = FALSE

\* lines 914-915
RankBoth ==
    /\ rank.stage = "start"
    /\ rank' = [rank EXCEPT !.stage = "ranked",
                            !.new = new_res(rank.incoming),
                            !.old = old_res(rank.existing)]
    /\ UNCHANGED <<fs, ini, cfg, pc, loc, outcome, fs0, effects, calls, faults, edits, walk, trip, overlap>>

\* lines 917-953
RankCompare ==
    /\ rank.stage = "ranked"
    /\ rank' = [rank EXCEPT !.stage = "compared",
                            !.verdict = Compare(rank.new, rank.old, rank.replace)]
    /\ UNCHANGED <<fs, ini, cfg, pc, loc, outcome, fs0, effects, calls, faults, edits, walk, trip, overlap>>

NextRank ==
    \/ RankBoth
    \/ RankCompare

SpecRank == InitRank /\ [][NextRank]_vars

\* ---------------------------------------------------------------- the formatter alone

\* Event numbers as get_event_number returns them, lines 407-412
EventNumbers ==
    {<<Up("ufc"), W("300")>>,
     <<Up("ufc"), Tt("fight"), Tt("night"), W("30")>>,
     <<Up("ufc"), W("on"), Up("espn"), W("12")>>}

\* Fighter names as get_fighter_names returns them
FighterNames ==
    {<<Tt("pereira"), W("vs"), Tt("hill")>>,
     <<Tt("pereira"), W("vs"), Tt("hill"), W("2")>>}

\* A VideoInfo with its four fields populated, of a downloaded file, and the
\* format settings in force
InitRoundTrip ==
    /\ trip \in [stage : {"info"},
                 info : [event_number : EventNumbers, fighter_names : FighterNames,
                         edition : Edition, resolution : ResWords,
                         path : {DownloadFolder \o <<DownloadNames.v>>}],
                 format : DOMAIN Formats,
                 new_path : {<<>>},
                 back : {<<>>}]
    /\ fs = [files |-> [f \in Downloads |-> ContentOf(f)],
             dirs |-> {DestinationFolder, DownloadFolder}]
    /\ ini = "default"
    /\ cfg = [p \in Procs |-> NoConfig]
    /\ pc = [p \in Procs |-> "idle"]
    /\ loc = [p \in Procs |-> NoLoc]
    /\ outcome = [p \in Procs |-> NoOutcome]
    /\ fs0 = [p \in Procs |-> fs]
    /\ effects = [p \in Procs |-> <<>>]
    /\ calls = 0
    /\ faults = 0
    /\ edits = 0
    /\ walk = NoWalk
    /\ rank = NoRank
    /\ overlap = FALSE

\* construct_path, lines 605-648, on the VideoInfo
Render ==
    /\ trip.stage = "info"
    /\ trip' = [trip EXCEPT !.stage = "path",
                            !.new_path = construct_path(trip.info, Formats[trip.format])]
    /\ UNCHANGED <<fs, ini, cfg, pc, loc, outcome, fs0, effects, calls, faults, edits,
                   walk, rank, overlap>>

\* VideoInfo(new_path, strict=False), lines 87-120
Reparse ==
    /\ trip.stage = "path"
    /\ trip' = [trip EXCEPT !.stage = "back", !.back = InfoOf(trip.new_path)]
    /\ UNCHANGED <<fs, ini, cfg, pc, loc, outcome, fs0, effects, calls, faults, edits,
                   walk, rank, overlap>>

NextRoundTrip ==
    \/ Render
    \/ Reparse

SpecRoundTrip == InitRoundTrip /\ [][NextRoundTrip]_vars

\* ---------------------------------------------------------------- the claims

\* The call of the process of Spec: its source, its target, the file system it
\* began on, its outcome.
Src == loc["a"].file_path
Tgt == loc["a"].new_path
Pre == fs0["a"]
Out == outcome["a"]
AtDone == pc["a"] = "done"
Computed == Tgt # <<>>

\* the run is not a dry run
RealRun == ~cfg["a"].dry_run

FailedOps == {"unlink failed", "mkdir failed", "move failed", "check_permissions failed"}
HasDone(op) == \E i \in 1..Len(effects["a"]) : effects["a"][i] = op
\* no operation of the file system has failed in the call
NoFailure == \A op \in FailedOps : ~HasDone(op)

\* a flag the run did not read can be either value
FlagCanBe(v, b) == v = "unset" \/ v = b

\* The files of the target folder that have the event number and the edition of
\* the incoming file, read from their names as VideoInfo reads them.
SameEdition(f, new_path, src) ==
    LET info == InfoOf(src)
    IN  {x \in {y \in DOMAIN f.files : Parent(y) = Parent(new_path)} :
            /\ InfoOf(x).event_number = info.event_number
            /\ InfoOf(x).edition = info.edition}

\* The file of the edition in the target folder, when there is exactly one and
\* it is not the incoming file: a set of one path or none.
TheExisting ==
    LET S == SameEdition(Pre, Tgt, Src)
    IN  IF Cardinality(S) = 1 /\ Src \notin S THEN S ELSE {}

NewRank == new_res(InfoOf(Src).resolution)
OldRank(x) == old_res(InfoOf(x).resolution)

\* the incoming file is at the target path and no longer at its source path
Placed ==
    /\ IsFile(fs, Tgt)
    /\ fs.files[Tgt] = Pre.files[Src]
    /\ Src # Tgt => ~IsFile(fs, Src)

Success == Out.kind = "return" /\ Out.code = 0
ReportedFailure == Out.kind = "return" /\ Out.code # 0

\* x is deleted, or replaced by the incoming file when it was at the target path
Superseded(x) == IF x = Tgt THEN Placed ELSE ~IsFile(fs, x)

\* C1 as stated: when the target folder holds a different file of the same event
\* number and edition that the incoming file outranks, a run (not a dry run, no
\* operation failing) deletes the existing file, leaves the incoming file at the
\* target path and returns 0.
C1_Original ==
    (AtDone /\ Computed /\ RealRun /\ NoFailure)
    => \A x \in TheExisting :
          (NewRank > OldRank(x))
          => (Superseded(x) /\ Placed /\ Success)

\* C1, amended: the same, when the computed target path does not exist already.
C1_ReplacesLowerResolution ==
    (AtDone /\ Computed /\ RealRun /\ NoFailure /\ ~Exists(Pre, Tgt))
    => \A x \in TheExisting :
          (NewRank > OldRank(x))
          => (~IsFile(fs, x) /\ Placed /\ Success)

C1_Witness ==
    /\ AtDone /\ Computed /\ RealRun /\ NoFailure /\ ~Exists(Pre, Tgt)
    /\ \E x \in TheExisting :
          NewRank > OldRank(x) /\ ~IsFile(fs, x)
    /\ Placed /\ Success

\* C2: when the one file of the edition in the target folder outranks the
\* incoming file, the call returns a non-zero code and the file system is as it
\* was: the incoming file at its source, nothing deleted, moved or created.
C2_KeepsHigherResolution ==
    (AtDone /\ Computed)
    => \A x \in TheExisting :
          (OldRank(x) > NewRank)
          => (ReportedFailure /\ fs = Pre)

C2_Witness ==
    /\ AtDone /\ Computed /\ RealRun
    /\ \E x \in TheExisting : OldRank(x) > NewRank
    /\ Out.msg = "higher resolution"

\* C3 as stated: when the one file of the edition in the target folder has the
\* rank of the incoming file, a run with replace_same_res set replaces it and
\* returns 0, and a run with replace_same_res not set returns a non-zero code and
\* leaves the file system as it was.
C3_Original ==
    (AtDone /\ Computed /\ RealRun /\ NoFailure)
    => \A x \in TheExisting :
        (NewRank = OldRank(x))
        => /\ FlagCanBe(cfg["a"].replace_same_res, "true")
                => (Superseded(x) /\ Placed /\ Success)
           /\ FlagCanBe(cfg["a"].replace_same_res, "false")
                => (ReportedFailure /\ fs = Pre)

\* C3, amended: the same, when the computed target path does not exist already.
C3_SameResolution ==
    (AtDone /\ Computed /\ RealRun /\ NoFailure /\ ~Exists(Pre, Tgt))
    => \A x \in TheExisting :
        (NewRank = OldRank(x))
        => /\ FlagCanBe(cfg["a"].replace_same_res, "true")
                => (~IsFile(fs, x) /\ Placed /\ Success)
           /\ FlagCanBe(cfg["a"].replace_same_res, "false")
                => (ReportedFailure /\ fs = Pre)

C3_Witness ==
    /\ AtDone /\ Computed /\ RealRun /\ NoFailure /\ ~Exists(Pre, Tgt)
    /\ cfg["a"].replace_same_res = "true"
    /\ \E x \in TheExisting :
          NewRank = OldRank(x) /\ ~IsFile(fs, x)
    /\ Placed /\ Success

\* C5: when the computed target path exists as the call begins, the call
\* returns "already exists" with a non-zero code and the file system is as it was.
C5_DuplicateTarget ==
    (AtDone /\ Computed /\ Exists(Pre, Tgt))
    => (ReportedFailure /\ Out.msg = "already exists" /\ fs = Pre)

C5_Witness ==
    /\ AtDone /\ Computed /\ RealRun /\ Exists(Pre, Tgt) /\ Src # Tgt
    /\ ReportedFailure

\* C6: when the target path does not exist and the target folder is absent, or
\* holds no file of the event number and edition other than the source itself,
\* a run (not a dry run, no operation failing) creates the missing folders, then
\* moves the source to the target, deletes nothing and returns 0.
C6_PlainMove ==
    (AtDone /\ Computed /\ RealRun /\ NoFailure
        /\ ~Exists(Pre, Tgt)
        /\ (~IsDir(Pre, Parent(Tgt)) \/ SameEdition(Pre, Tgt, Src) \subseteq {Src}))
    => /\ Success
       /\ fs.files = Moved(Pre, Src, Tgt).files
       /\ fs.dirs = Pre.dirs \cup Ancestors(Parent(Tgt))
       /\ effects["a"] = IF IsDir(Pre, Parent(Tgt)) THEN <<"move">>
                         ELSE <<"mkdir", "move">>

\* the source was the one file of its edition in the target folder
C6_Witness ==
    /\ AtDone /\ Computed /\ RealRun /\ NoFailure /\ ~Exists(Pre, Tgt)
    /\ SameEdition(Pre, Tgt, Src) = {Src}
    /\ Placed /\ Success

\* a folder was created for the move
C6_WitnessMkdir ==
    /\ AtDone /\ Computed /\ RealRun /\ NoFailure
    /\ ~IsDir(Pre, Parent(Tgt))
    /\ Placed /\ Success

\* C7: the move is taken only when the superseded file is gone.
C7_MoveOnlyAfterDelete ==
    [][(pc["a"] = "shutil_move" /\ fs' # fs /\ loc["a"].x_path # <<>>)
          => ~IsFile(fs, loc["a"].x_path)]_vars

\* C8: after a call in which the move or the creation of the folder failed, the
\* source is at its path, and the superseded file is not deleted while the
\* incoming file is not at the target.
C8_NoFileLost ==
    (AtDone /\ (HasDone("move failed") \/ HasDone("mkdir failed")))
    => /\ IsFile(fs, Src)
       /\ ~(/\ loc["a"].x_path # <<>>
            /\ ~IsFile(fs, loc["a"].x_path)
            /\ ~IsFile(fs, Tgt))

\* C9: a call in which an operation of the file system failed returns a
\* message and a non-zero code: it neither raises nor returns 0.
C9_FailuresReported ==
    (AtDone /\ ~NoFailure) => ReportedFailure

\* the known resolutions, by increasing number of lines
KnownOrder == <<"480p", "720p", "1080p", "2160p">>
Known == {KnownOrder[i] : i \in 1..Len(KnownOrder)}
Position(r) == CHOOSE i \in 1..Len(KnownOrder) : KnownOrder[i] = r

\* C4: an incoming file of no resolution ranks above every known existing
\* resolution and replaces; an existing file of no resolution ranks below every
\* known incoming resolution and is replaced; known resolutions rank by their
\* number; the verdict is never "higher resolution" for an incoming file of no
\* resolution, nor "same" or "higher" for an existing file of no resolution
\* against a known incoming one.
C4_RankAsymmetry ==
    rank.stage = "compared" =>
        LET i == rank.incoming
            x == rank.existing
            v == rank.verdict
        IN  /\ (i = "" /\ x \in Known) => (rank.new > rank.old /\ v = "replace")
            /\ (x = "" /\ i \in Known) => (rank.old < rank.new /\ v = "replace")
            /\ (i \in Known /\ x \in Known) =>
                  /\ (rank.new < rank.old) <=> (Position(i) < Position(x))
                  /\ (rank.new = rank.old) <=> (i = x)
                  /\ (v = "higher resolution") <=> (Position(i) < Position(x))
                  /\ (Position(i) > Position(x)) => v = "replace"
                  /\ (i = x) => v = (IF rank.replace = "true" THEN "replace"
                                     ELSE "same resolution")
            /\ i = "" => v # "higher resolution"

C4_Witness ==
    /\ rank.stage = "compared"
    /\ rank.incoming = "" /\ rank.existing = "2160p"
    /\ rank.verdict = "replace"

C4_WitnessExisting ==
    /\ rank.stage = "compared"
    /\ rank.incoming = "720p" /\ rank.existing = ""
    /\ rank.verdict = "replace"

\* What a call that does its effects, none of them failing, returns on the file
\* system f for the source src, the target tgt and replace_same_res rs: read
\* from the files of the edition in the target folder, any of them when several.
Verdict(new, old, rs) ==
    IF new > old THEN {"Moved"}
    ELSE IF new < old THEN {"higher resolution"}
    ELSE {"Moved" : b \in {rs} \cap {"true", "unset"}}
            \cup {"same resolution" : b \in {rs} \cap {"false", "unset"}}

WouldReturn(f, src, tgt, rs) ==
    IF Exists(f, tgt) THEN {"already exists"}
    ELSE LET S == SameEdition(f, tgt, src) IN
         IF S = {} THEN {"Moved"}
         ELSE UNION {IF x = src THEN {"Moved"}
                     ELSE Verdict(new_res(InfoOf(src).resolution),
                                  old_res(InfoOf(x).resolution), rs) : x \in S}

\* a dry run returns what the call would return on the file system it began on
DryOutcome ==
    (AtDone /\ Computed /\ cfg["a"].dry_run)
    => /\ Out.kind = "return"
       /\ Out.msg \in WouldReturn(Pre, Src, Tgt, cfg["a"].replace_same_res)
       /\ Out.code = (IF Out.msg = "Moved" THEN 0 ELSE 1)

\* a call that does its effects, none of them failing, returns the same
RealOutcome ==
    (AtDone /\ Computed /\ RealRun /\ NoFailure)
    => /\ Out.kind = "return"
       /\ Out.msg \in WouldReturn(Pre, Src, Tgt, cfg["a"].replace_same_res)
       /\ Out.code = (IF Out.msg = "Moved" THEN 0 ELSE 1)

\* C10: no step of a dry run, of rename_and_move or of bulk_rename, changes the
\* file system, and every call of rename_and_move in a dry run returns the
\* outcome the call returns on the file system it began on when it does its
\* effects.
C10_DryRun ==
    /\ [][cfg["a"].dry_run => fs' = fs]_vars
    /\ []DryOutcome
    /\ []RealOutcome

\* a dry run of bulk_rename has passed an empty folder it would remove
C10_Witness ==
    /\ walk.status = "returned"
    /\ cfg["a"].dry_run
    /\ walk.remove_empty
    /\ \E i \in 1..Len(walk.log) : walk.log[i] = "dry rmdir"

\* a dry run of rename_and_move has returned the outcome of a replacement
C10_WitnessReplace ==
    /\ AtDone /\ cfg["a"].dry_run
    /\ loc["a"].x_path # <<>>
    /\ Success
    /\ fs = Pre

\* ---------------------------------------------------------------- C11

\* C11: a run on a file that is already at its computed target path (source =
\* target) changes nothing in the file system and returns success, a no-op
\* and not an error.
C11_Idempotent ==
    (AtDone /\ Computed /\ Src = Tgt) =>
        /\ fs = Pre
        /\ Success

\* ---------------------------------------------------------------- C12

\* the run found no event number, in the file name or in the parent folder name
NoEvent == AtDone /\ Exists(Pre, Src) /\ InfoOf(Src).event_number = <<>>

C12_WitnessSilent ==
    /\ NoEvent
    /\ cfg["a"].strict_matching = "false"
    /\ Out.code = 0

\* ---------------------------------------------------------------- C13

\* C13: no run of rename_and_move ends by terminating the process: a missing
\* event number, a missing path or an unsafe folder name comes back to the
\* caller as a returned outcome.
C13_NeverExits == AtDone => Out.kind # "exit"

\* ---------------------------------------------------------------- C14

\* the file name of the path holds the part: every part outside the subfolder,
\* the parts of Config.format_subfolder inside it
Kept(part) ==
    \/ Parent(trip.new_path) = Parent(construct_path(
           [trip.info EXCEPT !.edition = MAIN_EVENT], Formats[trip.format]))
    \/ part \in Formats[trip.format].format_subfolder

RoundTrips(part) == trip.back[part] = trip.info[part]

\* C14 as stated: parsing the formatted path back gives the event number, the
\* edition and the resolution of the VideoInfo, for every edition.
C14_Original ==
    trip.stage = "back" =>
        \A part \in {"event_number", "edition", "resolution"} : RoundTrips(part)

\* C14: parsing the formatted path back gives the event number, the edition and
\* the resolution of the VideoInfo, each when the file name holds it: always
\* outside the edition subfolder, inside it for the parts of format_subfolder.
C14_RoundTrip ==
    trip.stage = "back" =>
        \A part \in {"event_number", "edition", "resolution"} :
            Kept(part) => RoundTrips(part)

\* a prelims file formatted into the subfolder under the default settings and
\* parsed back: the event number and the edition are those of the VideoInfo
C14_Witness ==
    /\ trip.stage = "back"
    /\ trip.format = "default"
    /\ trip.info.edition = EARLY_PRELIMS
    /\ NameOf(Parent(trip.new_path)) = OtherName
    /\ RoundTrips("event_number") /\ RoundTrips("edition")

\* a main event parsed back with its resolution, under the reordered format
C14_WitnessMain ==
    /\ trip.stage = "back"
    /\ trip.format = "reordered"
    /\ trip.info.edition = MAIN_EVENT
    /\ trip.back.resolution = "1080p"

\* ---------------------------------------------------------------- C15

\* C15: when rename_and_move on a file of the walk has found no event number,
\* bulk_rename goes on with the remaining entries: the walk is still running
\* after the call, and the code of the call is added to res.
C15_WalkGoesOn ==
    [][(walk.status = "running" /\ NoEvent)
        => /\ walk'.status = "running"
           /\ walk'.stack # <<>>
           /\ walk'.stack[Len(walk'.stack)].res = Top.res + Out.code]_vars

\* ---------------------------------------------------------------- C16

\* path x is below directory d
Under(x, d) == Len(x) > Len(d) /\ SubSeq(x, 1, Len(d)) = d

\* C16: a step of bulk_rename that removes a directory is taken with
\* remove_empty set, by the call that has just finished the loop over that
\* directory (every entry it had has been taken, and the calls on its
\* subdirectories have returned), with no file below it that rename_and_move
\* failed on, and with the directory empty.
C16_RemoveOnlyEmpty ==
    [][\A d \in fs.dirs \ fs'.dirs :
          /\ walk.status = "running"
          /\ walk.remove_empty
          /\ walk.stack # <<>> /\ Top.dir = d
          /\ Top.snap \subseteq Top.seen
          /\ \A x \in walk.failed : ~Under(x, d)
          /\ Entries(fs, d) = {}]_vars

\* a directory of the library has been removed by a walk in which a file failed
C16_Witness ==
    /\ walk.status = "running"
    /\ walk.remove_empty
    /\ walk.failed # {}
    /\ \E d \in Library.dirs : ~IsDir(fs, d)

\* a walk has left alone an empty directory below which a file had failed
C16_WitnessKept ==
    /\ walk.status = "returned"
    /\ walk.remove_empty
    /\ ~cfg["a"].dry_run
    /\ \E d \in fs.dirs :
          /\ Entries(fs, d) = {}
          /\ \E x \in walk.failed : Under(x, d)

\* ---------------------------------------------------------------- C17

AtOrUnder(x, d) == x = d \/ Under(x, d)

\* The entries that fail both conditions: the entries without an event number
\* in their name, in a directory bulk_rename was called on with in_ufc_folder
\* false.
Unrecognized ==
    UNION {{e \in Entries(fs, walk.stack[k].dir) :
               get_event_number(Normalize(NameOf(e))) = <<>>} :
           k \in {j \in 1..Len(walk.stack) : ~walk.stack[j].in_ufc_folder}}

\* bulk_rename is in no directory at or below such an entry, and the file
\* rename_and_move is called on is not at or below one
NotEntered ==
    \A e \in Unrecognized :
        /\ \A k \in 1..Len(walk.stack) : ~AtOrUnder(walk.stack[k].dir, e)
        /\ pc["a"] # "idle" => ~AtOrUnder(Src, e)

\* a step leaves the files and the directories at or below such an entry as
\* they are
NotTouched ==
    \A e \in Unrecognized :
        /\ \A x \in DOMAIN fs.files :
              AtOrUnder(x, e) => (x \in DOMAIN fs'.files /\ fs'.files[x] = fs.files[x])
        /\ \A d \in fs.dirs : AtOrUnder(d, e) => d \in fs'.dirs

TargetFolder == Tgt[Len(DestinationFolder) + 1]

\* non-empty: the words of a name are joined by single spaces and have none of
\* the characters \ / : * ? " < > |
SafeFolderName(name) == name.toks # <<>>

\* the formatter has no folder name for the file of the call, whichever names
\* find_names gives
NoFolderName ==
    /\ Exists(Pre, Src)
    /\ InfoOf(Src).event_number # <<>>
    /\ \A info \in VideoInfoStrict(Pre, Src) :
          PathParts(info, Formats[cfg["a"].template], 1).folder_parts = <<>>

\* C18: every step of a call that deletes, moves or creates something is taken
\* with the target path computed and the name of its folder safe; and a call
\* whose folder name is not safe ends as a fatal error, the file system as it
\* was before the call.
C18_ValidationFirst ==
    /\ [][fs' # fs => (Computed /\ SafeFolderName(TargetFolder))]_vars
    /\ []((AtDone /\ NoFolderName) =>
             (Out.kind = "exit" /\ Out.code # 0 /\ fs = Pre))

\* a call on the prelims file, which has no fighter names, has ended at the
\* check of the folder name, after another call has placed a file
C18_Witness ==
    /\ AtDone
    /\ NoFolderName
    /\ Out.code = 1
    /\ \E x \in DOMAIN fs.files : x[1] = DestinationFolder[1]

\* under the same format settings, a file with fighter names has been placed
C18_WitnessPlaced ==
    /\ AtDone
    /\ cfg["a"].template = "names"
    /\ Placed /\ Src # Tgt
    /\ HasDone("mkdir")

\* ---------------------------------------------------------------- C19

InDest(x) == Len(x) > 1 /\ SubSeq(x, 1, Len(DestinationFolder)) = DestinationFolder

\* two files of one event number and edition in one folder of the destination
Dups(f) ==
    \E x, y \in DOMAIN f.files :
        /\ x # y /\ InDest(x) /\ Parent(x) = Parent(y)
        /\ InfoOf(x).event_number = InfoOf(y).event_number
        /\ InfoOf(x).edition = InfoOf(y).edition

\* C19: a folder of the destination holds two files of one event number and
\* edition only after runs of rename_and_move that overlapped (or after a
\* failed operation of the file system): runs that come one after the other
\* do not lead there.
C19_SerializedNoDuplicates == (~overlap /\ faults = 0) => ~Dups(fs)

\* two runs that overlapped have both passed the scan and both moved their
\* file, no operation failing: the folder holds two files of the edition
C19_Witness ==
    /\ overlap /\ faults = 0
    /\ \A p \in Procs : pc[p] = "done" /\ outcome[p].msg = "Moved" /\ effects[p] # <<>>
    /\ loc["a"].new_path # loc["b"].new_path
    /\ Dups(fs)

\* two runs that overlapped had the same target path: the second move has
\* replaced the file of the first
C19_WitnessCollision ==
    /\ overlap /\ faults = 0
    /\ \A p \in Procs : pc[p] = "done" /\ outcome[p].msg = "Moved" /\ effects[p] # <<>>
    /\ loc["a"].new_path = loc["b"].new_path
    /\ loc["a"].file_path # loc["b"].file_path

\* ---------------------------------------------------------------- C20

\* the files the step takes away
Gone == (DOMAIN fs.files) \ (DOMAIN fs'.files)

\* x is deleted for the incoming file: another file, in the folder of the
\* target, of the event number and the edition of the incoming file
DeletedForIncoming(x) ==
    /\ x # Src
    /\ Parent(x) = Parent(Tgt)
    /\ InfoOf(x).event_number = InfoOf(Src).event_number
    /\ InfoOf(x).edition = InfoOf(Src).edition

\* the source is taken away by the move only: it is at the target afterwards
MovedToTarget ==
    /\ IsFile(fs', Tgt)
    /\ fs'.files[Tgt] = fs.files[Src]

Unlinks == {i \in 1..Len(effects["a"]) : effects["a"][i] = "unlink"}

\* C20: from an empty destination, as long as no operation of the file system
\* has failed, no folder of the destination holds two files of one event
\* number and edition; a step of a call takes away the source, by the move, or
\* one file of the target folder with the event number and the edition of the
\* incoming file; no file is overwritten; and a call deletes at most one file.
C20_OnePerEdition ==
    /\ [](faults = 0 => ~Dups(fs))
    /\ [][/\ \A x \in Gone : IF x = Src THEN MovedToTarget ELSE DeletedForIncoming(x)
          /\ Cardinality(Gone \ {Src}) <= 1
          /\ \A x \in (DOMAIN fs.files) \cap (DOMAIN fs'.files) :
                fs'.files[x] = fs.files[x]]_vars
    /\ [](Cardinality(Unlinks) <= 1)

\* the third run of three has deleted the file of the edition and placed its
\* own, no operation failing: the folder of the target holds that one file
C20_Witness ==
    /\ AtDone /\ calls = MaxCalls /\ faults = 0
    /\ Cardinality(Unlinks) = 1
    /\ Placed
    /\ {x \in DOMAIN fs.files : Parent(x) = Parent(Tgt)} = {Tgt}

\* ---------------------------------------------------------------- C21

\* the resolution in the name the content was downloaded under
SourceResolution(id) == get_resolution(Normalize(DownloadNames[id]))

\* the call has deleted the stored file x_path for the incoming file, both
\* downloaded with a resolution in their names, and no operation has failed
ReplacedKnown ==
    /\ AtDone /\ HasDone("unlink") /\ NoFailure
    /\ SourceResolution(Pre.files[Src]) # ""
    /\ SourceResolution(Pre.files[loc["a"].x_path]) # ""

IncomingSource == ResNum(SourceResolution(Pre.files[Src]))
StoredSource == ResNum(SourceResolution(Pre.files[loc["a"].x_path]))

\* C21: a stored file is deleted for an incoming file only when the resolution
\* the incoming file was downloaded with is higher than the one the stored file
\* was downloaded with, or equal with replace_same_res set; so the resolution
\* of what is stored for an event and edition never decreases.
C21_ResolutionNeverDecreases ==
    ReplacedKnown =>
        /\ IncomingSource >= StoredSource
        /\ IncomingSource = StoredSource
              => FlagCanBe(cfg["a"].replace_same_res, "true")

====
